---- MODULE Spec2Model ----
(***************************************************************************)
(* The reactive data-loading core of app.py: three reactive variables      *)
(* (all_countries, selected_country, data_df), the two effects             *)
(* load_country_list and load_filtered_data, and the Page component that   *)
(* renders them.                                                           *)
(*                                                                         *)
(* Country codes are character strings; a string is modelled as the        *)
(* sequence of its code points, so that ORDER BY country (binary           *)
(* collation) and the SQL string literal built by the f-string at line 69  *)
(* are computed as the engine computes them.  "" is << >>.                 *)
(*                                                                         *)
(* Scheduling: one thread per page session renders the component, runs the *)
(* effects registered by the render in declaration order, and handles the  *)
(* widget events of the session one after the other.  The DuckDB calls are *)
(* blocking, so a selection made in the browser while a query runs waits   *)
(* in the session's inbox until the effect has returned.                   *)
(***************************************************************************)
EXTENDS Integers, Sequences, FiniteSets, TLC

VARIABLES
    dataset,          \* rows of the remote CSV (line 8), read-only
    all_countries,    \* reactive, line 14
    selected_country, \* reactive, line 16
    data_df,          \* reactive, line 18: the rows of the DataFrame
    pc,               \* position of the session thread
    todo,             \* effects still to run after the current render
    rendered,         \* has Page been rendered at least once
    deps,             \* dependencies=[selected_country.value] of the last render
    dirty,            \* a reactive variable changed since the last render
    country_name,     \* local of load_filtered_data, line 56
    screen,           \* what the last render of Page put on the page
    inbox,            \* selections made in the browser, not yet handled
    clicks,           \* number of selections made so far
    lastA,            \* outcome of load_country_list: "none", "ok", "fail"
    lastB,            \* outcome of the last load_filtered_data run
    listQueries,      \* number of times the DISTINCT country query was issued
    queries,          \* number of times the top-cities query was issued
    changes,          \* number of writes that changed selected_country to a non-empty value
    raced,            \* the selection made while a query for another country ran
    firstPass,        \* the effects now running are those of the first render
    initialQuery      \* 1 if the run after the first render issued a query, else 0

vars == <<dataset, all_countries, selected_country, data_df, pc, todo, rendered,
          deps, dirty, country_name, screen, inbox, clicks, lastA, lastB,
          listQueries, queries, changes, raced, firstPass, initialQuery>>

-----------------------------------------------------------------------------
(* Bounds and program constants *)

MaxRows == 2      \* rows in a generated dataset
MaxClicks == 2    \* selections the user makes in one run

Limit == 10       \* LIMIT 10
Quote == 39       \* the character ' that delimits the literal at line 69

USA == <<85, 83, 65>>          \* "USA"
CAN == <<67, 65, 78>>          \* "CAN"
QOne == <<65, Quote, 66>>          \* "A'B"
QTwo == <<65, Quote, Quote, 66>>   \* "A''B"
Empty == << >>                 \* "" and the empty DataFrame / list

CountryCodes == {USA, CAN, QOne, QTwo}
CityNames == {"n1", "n2"}
Populations == {1, 2}

CityRecord == [name : CityNames, country : CountryCodes, population : Populations]

\* A dataset with more than Limit rows of one country; the rows ranked 10th
\* and 11th have the same population.
BigPopulations == <<20, 19, 18, 17, 16, 15, 14, 13, 12, 5, 5>>
BigNames == <<"c01", "c02", "c03", "c04", "c05", "c06", "c07", "c08", "c09", "c10", "c11">>
BigDataset ==
    {[name |-> BigNames[i], country |-> USA, population |-> BigPopulations[i]] :
        i \in 1..Len(BigPopulations)}
    \cup {[name |-> "n1", country |-> CAN, population |-> 7]}

Datasets == {d \in SUBSET CityRecord : Cardinality(d) <= MaxRows} \cup {BigDataset}

-----------------------------------------------------------------------------
(* The query engine *)

Min(a, b) == IF a <= b THEN a ELSE b

Range(s) == {s[i] : i \in 1..Len(s)}

\* binary string comparison, as ORDER BY country does
RECURSIVE StrLess(_, _)
StrLess(a, b) ==
    IF b = << >> THEN FALSE
    ELSE IF a = << >> THEN TRUE
    ELSE IF Head(a) # Head(b) THEN Head(a) < Head(b)
    ELSE StrLess(Tail(a), Tail(b))

RECURSIVE OrderByCountry(_)
OrderByCountry(S) ==
    IF S = {} THEN << >>
    ELSE LET m == CHOOSE x \in S : \A y \in S \ {x} : StrLess(x, y)
         IN  <<m>> \o OrderByCountry(S \ {m})

\* SELECT DISTINCT country FROM csv ORDER BY country, then row[0] of each row
ListCountries(d) == OrderByCountry({r.country : r \in d})

\* The text '{country_name}' read back as an SQL string literal.  Inside the
\* literal two quotes stand for one quote; a single quote ends it.  What
\* follows the end of the literal must be the rest of the statement, so the
\* statement parses only if the closing quote written by the f-string is the
\* one that ends the literal.  text is country_name followed by that quote.
RECURSIVE ScanLiteral(_, _)
ScanLiteral(text, acc) ==
    IF text = << >> THEN [ok |-> FALSE, value |-> acc]         \* unterminated
    ELSE IF Head(text) # Quote THEN ScanLiteral(Tail(text), Append(acc, Head(text)))
    ELSE IF Len(text) >= 2 /\ text[2] = Quote
             THEN ScanLiteral(Tail(Tail(text)), Append(acc, Quote))
    ELSE [ok |-> Len(text) = 1, value |-> acc]                 \* literal ends here

SqlLiteral(name) == ScanLiteral(Append(name, Quote), << >>)

\* ORDER BY population DESC: every order of the rows that is descending
RECURSIVE OrderByPopulationDesc(_)
OrderByPopulationDesc(rows) ==
    IF rows = {} THEN {<< >>}
    ELSE UNION {{<<r>> \o s : s \in OrderByPopulationDesc(rows \ {r})} :
                  r \in {x \in rows : \A y \in rows : y.population <= x.population}}

\* the outcomes of the query at lines 66-74 when the statement parses
TopCitiesFor(d, name) ==
    LET lit == SqlLiteral(name).value
        matching == {r \in d : r.country = lit}
    IN  {SubSeq(s, 1, Min(Len(s), Limit)) : s \in OrderByPopulationDesc(matching)}

-----------------------------------------------------------------------------
(* The page *)

NoScreen == [view |-> "none", country |-> Empty, rows |-> Empty, options |-> Empty]

\* Page without the "not data_df.value.empty" test of line 142
PageIgnoresEmpty(countries, sel, df) ==
    IF sel # Empty
        THEN [view |-> "map", country |-> sel, rows |-> df, options |-> countries]
    ELSE [view |-> "waiting", country |-> Empty, rows |-> Empty, options |-> countries]

Page(countries, sel, df) ==
    IF sel # Empty /\ df # Empty
        THEN [view |-> "map", country |-> sel, rows |-> df, options |-> countries]
    ELSE IF sel # Empty
        THEN [view |-> "loading", country |-> sel, rows |-> Empty, options |-> countries]
    ELSE [view |-> "waiting", country |-> Empty, rows |-> Empty, options |-> countries]

-----------------------------------------------------------------------------

Init ==
    /\ dataset \in Datasets
    /\ all_countries = Empty
    /\ selected_country = Empty
    /\ data_df = Empty
    /\ pc = "render"
    /\ todo = << >>
    /\ rendered = FALSE
    /\ deps = Empty
    /\ dirty = FALSE
    /\ country_name = Empty
    /\ screen = NoScreen
    /\ inbox = << >>
    /\ clicks = 0
    /\ lastA = "none"
    /\ lastB = "none"
    /\ listQueries = 0
    /\ queries = 0
    /\ changes = 0
    /\ raced = Empty
    /\ firstPass = FALSE
    /\ initialQuery = 0

-----------------------------------------------------------------------------
(* The reactive store and its two effects *)

\* load_country_list registered without dependencies: it runs after every render
EffectsEveryRender(first, previous, current) ==
    <<"load_country_list">>
    \o (IF first \/ previous # current THEN <<"load_filtered_data">> ELSE << >>)

\* load_filtered_data registered with dependencies=[] like load_country_list
EffectsFirstRenderOnly(first, previous, current) ==
    IF first THEN <<"load_country_list", "load_filtered_data">> ELSE << >>

\* use_effect: load_country_list has dependencies=[] and runs after the first
\* render only; load_filtered_data has dependencies=[selected_country.value]
\* and runs after the first render and after every render whose value differs
\* from the one of the render before.  Effects run in declaration order.
EffectsAfterRender(first, previous, current) ==
    (IF first THEN <<"load_country_list">> ELSE << >>)
    \o (IF first \/ previous # current THEN <<"load_filtered_data">> ELSE << >>)

\* the default rule without the membership test of line 43
DefaultSelectionAlwaysUSA(country_list, current) == USA

\* the default rule without the "USA" branch of lines 43-44
DefaultSelectionFirst(country_list, current) ==
    IF country_list # Empty THEN country_list[1] ELSE current

\* lines 43-46: the value selected_country has after the default rule
DefaultSelection(country_list, current) ==
    IF USA \in Range(country_list) THEN USA
    ELSE IF country_list # Empty THEN country_list[1]
    ELSE current

\* the except branch without line 80
OnQueryErrorKeep(df) == df

\* line 80: what data_df holds after the except branch
OnQueryError(df) == Empty

\* line 56: the country the query is built for
QueryCountry == selected_country

\* widget events handled while the query of lines 62-74 is in flight
CanHandleEventAnytime == pc \in {"idle", "querying"}

\* the session thread takes the next widget event only when it is not inside
\* a render or an effect (the calls at lines 30-38 and 62-74 block)
CanHandleEvent == pc = "idle"

Render ==
    /\ pc = "render"
    /\ screen' = Page(all_countries, selected_country, data_df)
    /\ todo' = EffectsAfterRender(~rendered, deps, selected_country)
    /\ deps' = selected_country
    /\ rendered' = TRUE
    /\ dirty' = FALSE
    /\ firstPass' = ~rendered
    /\ pc' = "effects"
    /\ UNCHANGED <<dataset, all_countries, selected_country, data_df, country_name,
                   inbox, clicks, lastA, lastB, listQueries, queries, changes, raced, initialQuery>>

\* all effects of the render have returned: render again if a reactive
\* variable changed, else wait for events
EffectsDone ==
    /\ pc = "effects"
    /\ todo = << >>
    /\ pc' = IF dirty THEN "render" ELSE "idle"
    /\ UNCHANGED <<dataset, all_countries, selected_country, data_df, todo, rendered,
                   deps, dirty, country_name, screen, inbox, clicks, lastA, lastB,
                   listQueries, queries, changes, raced, firstPass,
                   initialQuery>>

\* load_country_list, the try block runs to its end (lines 30-48)
LoadCountryListOk ==
    /\ pc = "effects"
    /\ todo # << >> /\ Head(todo) = "load_country_list"
    /\ LET country_list == ListCountries(dataset)
           selected == DefaultSelection(country_list, selected_country)
       IN  /\ all_countries' = country_list
           /\ selected_country' = selected
           /\ dirty' = (dirty \/ country_list # all_countries \/ selected # selected_country)
           /\ changes' = IF selected # selected_country /\ selected # Empty
                            THEN changes + 1 ELSE changes
    /\ lastA' = "ok"
    /\ listQueries' = listQueries + 1
    /\ todo' = Tail(todo)
    /\ UNCHANGED <<dataset, data_df, pc, rendered, deps, country_name, screen, inbox,
                   clicks, lastB, queries, raced, firstPass,
                   initialQuery>>

\* an except branch that falls back to the preferred country
LoadCountryListFailDefault ==
    /\ pc = "effects"
    /\ todo # << >> /\ Head(todo) = "load_country_list"
    /\ selected_country' = USA
    /\ dirty' = TRUE
    /\ lastA' = "fail"
    /\ listQueries' = listQueries + 1
    /\ todo' = Tail(todo)
    /\ UNCHANGED <<dataset, all_countries, data_df, pc, rendered, deps, country_name,
                   screen, inbox, clicks, lastB, queries, changes, raced, firstPass,
                   initialQuery>>

\* load_country_list, a call at lines 30-38 raises: the except branch
\* (lines 49-50) prints and returns
LoadCountryListFail ==
    /\ pc = "effects"
    /\ todo # << >> /\ Head(todo) = "load_country_list"
    /\ lastA' = "fail"
    /\ listQueries' = listQueries + 1
    /\ todo' = Tail(todo)
    /\ UNCHANGED <<dataset, all_countries, selected_country, data_df, pc, rendered,
                   deps, dirty, country_name, screen, inbox, clicks, lastB, queries,
                   changes, raced, firstPass,
                   initialQuery>>

\* load_filtered_data without the test of lines 57-58
LoadFilteredNoGuard ==
    /\ pc = "effects"
    /\ todo # << >> /\ Head(todo) = "load_filtered_data"
    /\ QueryCountry = Empty
    /\ country_name' = QueryCountry
    /\ queries' = queries + 1
    /\ pc' = "querying"
    /\ UNCHANGED <<dataset, all_countries, selected_country, data_df, todo, rendered,
                   deps, dirty, screen, inbox, clicks, lastA, lastB, listQueries,
                   changes, raced, firstPass, initialQuery>>

\* load_filtered_data, lines 56-58: nothing selected, return
LoadFilteredSkip ==
    /\ pc = "effects"
    /\ todo # << >> /\ Head(todo) = "load_filtered_data"
    /\ QueryCountry = Empty
    /\ country_name' = QueryCountry
    /\ lastB' = "skip"
    /\ todo' = Tail(todo)
    /\ UNCHANGED <<dataset, all_countries, selected_country, data_df, pc, rendered,
                   deps, dirty, screen, inbox, clicks, lastA, listQueries, queries,
                   changes, raced, firstPass,
                   initialQuery>>

\* load_filtered_data, lines 56-74: the query is sent and the thread waits
LoadFilteredIssue ==
    /\ pc = "effects"
    /\ todo # << >> /\ Head(todo) = "load_filtered_data"
    /\ QueryCountry # Empty
    /\ country_name' = QueryCountry
    /\ queries' = queries + 1
    /\ initialQuery' = IF firstPass THEN 1 ELSE initialQuery
    /\ pc' = "querying"
    /\ UNCHANGED <<dataset, all_countries, selected_country, data_df, todo, rendered,
                   deps, dirty, screen, inbox, clicks, lastA, lastB, listQueries,
                   changes, raced, firstPass>>

\* lines 74-77: the statement parsed and ran, its rows are published
LoadFilteredOk ==
    /\ pc = "querying"
    /\ SqlLiteral(country_name).ok
    /\ \E df_result \in TopCitiesFor(dataset, country_name) :
           /\ data_df' = df_result
           /\ dirty' = (dirty \/ df_result # data_df)
    /\ lastB' = "ok"
    /\ pc' = "effects"
    /\ todo' = Tail(todo)
    /\ UNCHANGED <<dataset, all_countries, selected_country, rendered, deps,
                   country_name, screen, inbox, clicks, lastA, listQueries, queries,
                   changes, raced, firstPass,
                   initialQuery>>

\* an except branch that also clears the selection
LoadFilteredFailResets ==
    /\ pc = "querying"
    /\ data_df' = OnQueryError(data_df)
    /\ selected_country' = Empty
    /\ dirty' = TRUE
    /\ lastB' = "fail"
    /\ pc' = "effects"
    /\ todo' = Tail(todo)
    /\ UNCHANGED <<dataset, all_countries, rendered, deps, country_name, screen, inbox,
                   clicks, lastA, listQueries, queries, changes, raced, firstPass,
                   initialQuery>>

\* lines 78-80: a call in the try block raised (no connection, the statement
\* does not parse, close() failed after the rows were set)
LoadFilteredFail ==
    /\ pc = "querying"
    /\ data_df' = OnQueryError(data_df)
    /\ dirty' = (dirty \/ data_df' # data_df)
    /\ lastB' = "fail"
    /\ pc' = "effects"
    /\ todo' = Tail(todo)
    /\ UNCHANGED <<dataset, all_countries, selected_country, rendered, deps,
                   country_name, screen, inbox, clicks, lastA, listQueries, queries,
                   changes, raced, firstPass,
                   initialQuery>>

\* the user picks an entry of the Select (lines 135-139) as last rendered
UserSelect(c) ==
    /\ clicks < MaxClicks
    /\ c \in Range(screen.options)
    /\ inbox' = Append(inbox, c)
    /\ clicks' = clicks + 1
    /\ raced' = IF pc = "querying" /\ c # country_name THEN c ELSE raced
    /\ UNCHANGED <<dataset, all_countries, selected_country, data_df, pc, todo,
                   rendered, deps, dirty, country_name, screen, lastA, lastB,
                   listQueries, queries, changes, firstPass,
                   initialQuery>>

\* the Select writes the picked value to selected_country (value=selected_country,
\* line 137); a changed value schedules a render
HandleSelect ==
    /\ CanHandleEvent
    /\ inbox # << >>
    /\ selected_country' = Head(inbox)
    /\ inbox' = Tail(inbox)
    /\ dirty' = (dirty \/ Head(inbox) # selected_country)
    /\ pc' = IF pc = "idle" /\ Head(inbox) # selected_country THEN "render" ELSE pc
    /\ changes' = IF Head(inbox) # selected_country THEN changes + 1 ELSE changes
    /\ UNCHANGED <<dataset, all_countries, data_df, todo, rendered, deps,
                   country_name, screen, clicks, lastA, lastB, listQueries, queries,
                   raced, firstPass,
                   initialQuery>>

Next ==
    \/ Render
    \/ EffectsDone
    \/ LoadCountryListOk
    \/ LoadCountryListFail
    \/ LoadFilteredSkip
    \/ LoadFilteredIssue
    \/ LoadFilteredOk
    \/ LoadFilteredFail
    \/ \E c \in CountryCodes : UserSelect(c)
    \/ HandleSelect

Spec == Init /\ [][Next]_vars

-----------------------------------------------------------------------------
(* Properties *)

\* every row of rows has the given country
AllOfCountry(rows, c) == \A i \in 1..Len(rows) : rows[i].country = c

\* no country code of the dataset holds a quote character
NoQuotes(d) == \A r \in d : Quote \notin Range(r.country)

\* C1: in every state the page renders, every row of FilteredRows has
\* country = SelectedCountry, also between the write of a new selection and
\* the end of the Stage B run for it: Page never shows rows fetched for a
\* superseded country under the new selection.  (Stated for datasets whose
\* country codes hold no quote, where the query returns the rows of the
\* country it was built for.)
C1_DisplayedRowsMatchSelection ==
    NoQuotes(dataset) =>
        /\ (pc = "render" => AllOfCountry(data_df, selected_country))
        /\ AllOfCountry(screen.rows, screen.country)

C3_DefaultSelection ==
    [][(lastA = "none" /\ lastA' = "ok" /\ selected_country = Empty) =>
          /\ (USA \in Range(all_countries') => selected_country' = USA)
          /\ (all_countries' # Empty /\ USA \notin Range(all_countries')
                  => selected_country' = all_countries'[1])
          /\ (all_countries' = Empty => selected_country' = Empty)]_vars

C3_Witness ==
    /\ lastA = "ok" /\ clicks = 0
    /\ Len(all_countries) >= 2 /\ USA \notin Range(all_countries)
    /\ selected_country = all_countries[1]

\* C4: when the Stage B query fails, FilteredRows becomes empty, the effect
\* returns normally (the thread goes on with the effects of the render), and
\* CountryList and SelectedCountry are unchanged.
C4_FailureEmptiesRows ==
    [][(pc = "querying" /\ pc' # "querying" /\ lastB' = "fail") =>
          /\ data_df' = Empty
          /\ pc' = "effects" /\ todo' = Tail(todo)
          /\ UNCHANGED <<all_countries, selected_country>>]_vars

\* the rows of the country selected before are still on the page of the last
\* render when the query for the new selection has failed
C4_Witness ==
    /\ lastB = "fail" /\ pc = "effects" /\ data_df = Empty
    /\ selected_country # Empty
    /\ screen.view = "map" /\ screen.rows[1].country # selected_country

\* C5: after listCountries() failed, CountryList and SelectedCountry are
\* empty, no Stage B query has been issued, the thread is still running its
\* effects or waiting for events, and the page shows the "waiting for
\* country list" indicator.
C5_CountryListFailure ==
    lastA = "fail" =>
        /\ all_countries = Empty
        /\ selected_country = Empty
        /\ queries = 0
        /\ screen.view = "waiting"
        /\ pc \in {"effects", "idle"}

C5_Witness == lastA = "fail" /\ pc = "idle" /\ lastB = "skip"

\* the reference result of topCitiesFor(c): the rows of the dataset with
\* country = c, by population descending, cut to the first Limit rows
IsReference(d, c, rows) ==
    LET matching == {r \in d : r.country = c}
    IN  /\ \A i \in 1..Len(rows) : rows[i] \in matching
        /\ \A i, j \in 1..Len(rows) : i < j =>
               /\ rows[i] # rows[j]
               /\ rows[i].population >= rows[j].population
        /\ Len(rows) = Min(Limit, Cardinality(matching))
        /\ \A r \in matching \ Range(rows) : r.population <= rows[Len(rows)].population

\* C6: for every dataset and country c, the FilteredRows published by a
\* successful Stage B run for c is the reference result for c.
C6_PublishedIsReference ==
    (pc = "effects" /\ todo = << >> /\ lastB = "ok") =>
        IsReference(dataset, country_name, data_df)

\* C7: what the page shows is decided by (SelectedCountry, FilteredRows):
\* map + chart + table iff a country is selected and the rows are non-empty,
\* the loading indicator iff a country is selected and the rows are empty,
\* the waiting indicator iff no country is selected.
C7_ViewOfState ==
    (rendered /\ ~dirty) =>
        /\ screen.view \in {"map", "loading", "waiting"}
        /\ screen.view = "map" <=> (selected_country # Empty /\ data_df # Empty)
        /\ screen.view = "loading" <=> (selected_country # Empty /\ data_df = Empty)
        /\ screen.view = "waiting" <=> selected_country = Empty

C7_Witness ==
    /\ rendered /\ ~dirty /\ pc = "idle"
    /\ screen.view = "loading" /\ selected_country # Empty /\ lastB = "fail"

\* C8: a Stage B run that finds SelectedCountry empty returns at once: the
\* step the thread takes there (any step but a selection in the browser)
\* issues no query and leaves CountryList, SelectedCountry and FilteredRows
\* unchanged.
C8_EmptySelectionShortCircuits ==
    [][(/\ pc = "effects" /\ todo # << >> /\ Head(todo) = "load_filtered_data"
        /\ selected_country = Empty
        /\ inbox' = inbox) =>
          /\ UNCHANGED <<all_countries, selected_country, data_df, queries>>
          /\ pc' = "effects" /\ todo' = Tail(todo)]_vars

C8_Witness == lastB = "skip" /\ queries = 0 /\ pc = "idle" /\ selected_country = Empty

\* C9: Stage B issues one query for every change of SelectedCountry to a
\* non-empty value, plus one in its initial run if SelectedCountry has a
\* value then, and no other; when the runs have ended, the query was built
\* for the selected country and FilteredRows is its result, or empty if it
\* failed.
C9_OneQueryPerChange ==
    pc = "idle" =>
        /\ queries = changes + initialQuery
        /\ lastB = "skip" => (selected_country = Empty /\ queries = 0)
        /\ lastB = "ok" =>
               /\ country_name = selected_country
               /\ data_df \in TopCitiesFor(dataset, selected_country)
        /\ lastB = "fail" => (country_name = selected_country /\ data_df = Empty)

C9_Witness ==
    /\ pc = "idle" /\ inbox = << >>
    /\ changes = 3 /\ queries = 4
    /\ lastB = "ok" /\ data_df # Empty

\* C10: after a Stage B query has failed, FilteredRows stays empty and no
\* query is issued until SelectedCountry changes to another value; after a
\* Stage A failure listCountries() is not issued again.
C10_NoRetry ==
    /\ [](lastB = "fail" => data_df = Empty)
    /\ [][(lastB = "fail" /\ queries' # queries) => country_name' # country_name]_vars
    /\ [](listQueries <= 1)

\* C11: Stage A runs once, at initialization: once load_country_list has
\* run, listCountries() is not issued again and CountryList keeps its value
\* in every later step, whatever selections and Stage B runs follow.
C11_CountryListWrittenOnce ==
    [][/\ (lastA # "none" => (listQueries' = listQueries /\ all_countries' = all_countries))
       /\ (all_countries' # all_countries => (lastA = "none" /\ lastA' = "ok" /\ firstPass))
       /\ listQueries' <= 1]_vars

C11_Witness ==
    /\ lastA = "ok" /\ listQueries = 1 /\ all_countries = ListCountries(dataset)
    /\ Len(all_countries) >= 2
    /\ clicks >= 2 /\ inbox = << >> /\ pc = "idle"
    /\ lastB = "fail" /\ queries >= 3

\* C12: SelectedCountry is written only by the step that handles a selection
\* of the user (to the value picked) and by the default rule of Stage A; the
\* default rule runs at most once and only while SelectedCountry is empty
\* and the user has selected nothing; Stage B never writes it.
C12_SelectionWriters ==
    [][/\ (selected_country' # selected_country =>
              \/ (lastA = "none" /\ lastA' = "ok"
                    /\ selected_country = Empty /\ clicks = 0)
              \/ (pc = "idle" /\ inbox # << >> /\ inbox' = Tail(inbox)
                    /\ selected_country' = Head(inbox)))
       /\ ((pc = "querying" \/ (todo # << >> /\ Head(todo) = "load_filtered_data"
                                   /\ inbox' = inbox))
              => selected_country' = selected_country)]_vars

\* the user has replaced the default and Stage B has run (and failed) for
\* the value picked
C12_Witness ==
    /\ lastA = "ok" /\ clicks >= 1 /\ inbox = << >> /\ pc = "idle"
    /\ selected_country # Empty
    /\ selected_country # DefaultSelection(all_countries, Empty)
    /\ lastB = "fail" /\ country_name = selected_country

\* C13: SelectedCountry is empty or an entry of CountryList, and Stage B
\* never builds a query for a country outside CountryList.
C13_SelectionInList ==
    /\ (selected_country = Empty \/ selected_country \in Range(all_countries))
    /\ (pc = "querying" => country_name \in Range(all_countries))
    /\ \A i \in 1..Len(inbox) : inbox[i] \in Range(all_countries)

C13_Witness ==
    /\ pc = "querying" /\ clicks >= 1
    /\ USA \notin Range(all_countries)
    /\ country_name = selected_country
    /\ selected_country \in Range(all_countries)
    /\ selected_country # all_countries[1]

====
